---- MODULE Spec2Model ----
(***************************************************************************)
(* Model of src/accounts.py: class Account (a ledger kept in the file      *)
(* <holder>/ledger.csv, the csv exports and the category x period report)  *)
(* and generate_random_data.                                               *)
(*                                                                         *)
(* Money is an integer number of thousandths (1.00 is 1000), so that both  *)
(* roundings of the code, round(x, 2) and round(x), do something.          *)
(* A date is <<year, month, day>>.  A csv field holding a date is the      *)
(* record [y, m, d, pad]: pad says whether month and day were written with *)
(* two digits.  A csv field holding a number is [v, int]: int says whether *)
(* it was written from a Python int ("2000") or a float ("2000.0").        *)
(***************************************************************************)
EXTENDS Integers, Sequences, FiniteSets, TLC

VARIABLES
    ledger_csv,    \* <holder>/ledger.csv: [header, rows]
    category_csv,  \* <holder>/category.csv: NoFile or [header, rows]
    payment_csv,   \* <holder>/payment.csv: NoFile or [header, rows]
    report_txt,    \* <holder>/report.txt: NoFile or a sequence of lines
    report_html,   \* <holder>/report.html: NoFile or the table inside the page
    console,       \* what the last print_report() printed, line by line
    pr,            \* the locals of the last print_report() call at its return
    call,          \* the last call made and its arguments
    result,        \* what the last call returned
    expected,      \* the balance the holder's own arithmetic gives (2 decimals)
    pc,            \* where each of two concurrent transaction() calls stands
    locals         \* the arguments and locals of those two calls

vars == <<ledger_csv, category_csv, payment_csv, report_txt, report_html,
          console, pr, call, result, expected, pc, locals>>

reportVars == <<report_txt, report_html, console, pr>>

(***************************************************************************)
(* Bounds and input sets                                                   *)
(***************************************************************************)
MaxLen == 3

InitAmounts == {-5000, 1500, 2000}
Amounts == {400, 2000, 2504}
Todays == {<<2023, 11, 30>>, <<2024, 2, 1>>, <<2024, 6, 15>>}
Categories == {"Credit", "Food"}
Descs == {"Added Food"}
Modes == {"UPI", "Card Payment"}

\* a file that does not exist
NoFile == [exists |-> FALSE]

\* Python's None
None == "None"

\* no print_report() has run yet
NoReport == [done |-> FALSE]

\* a process that has not called transaction() yet
NoCall == [seen |-> 0, wrote |-> 0]

(***************************************************************************)
(* Python's round(): to the nearest multiple of `unit`, ties to even.      *)
(***************************************************************************)
RoundHalfEven(x, unit) ==
    LET q == x \div unit
        r == x % unit
    IN  IF 2 * r < unit THEN q * unit
        ELSE IF 2 * r > unit THEN (q + 1) * unit
        ELSE IF q % 2 = 0 THEN q * unit ELSE (q + 1) * unit

\* round(x, 2)
Round2(x) == RoundHalfEven(x, 10)

\* round(x): an int
RoundInt(x) == RoundHalfEven(x, 1000)

Last(s) == s[Len(s)]

(***************************************************************************)
(* csv fields                                                              *)
(***************************************************************************)
\* datetime.datetime.strftime(date, "%Y-%m-%d") and str(date) of a date
IsoDate(date) == [y |-> date[1], m |-> date[2], d |-> date[3], pad |-> TRUE]

\* datetime.datetime.strptime(text, "%Y-%m-%d"): one or two digits both parse
Strptime(text) == [year |-> text.y, month |-> text.m, day |-> text.d]

\* what csv writes for an int
IntText(x) == [v |-> x, int |-> TRUE]

\* what csv writes for a float
FloatText(x) == [v |-> x, int |-> FALSE]

\* float(text)
Float(text) == text.v

LedgerKeys == <<"date", "category", "desc", "mode_of_payment", "amount">>

EmptyFile == [exists |-> TRUE, header |-> <<>>, rows |-> <<>>]

\* Account.ledger: one row appended, the header first when the file is empty
LedgerWriteMutant(file, date, amount, category, desc, mode_of_payment) ==
    LET data == [date |-> date, category |-> category, desc |-> desc,
                 mode_of_payment |-> mode_of_payment,
                 amount |-> IntText(RoundInt(amount))]
    IN  [exists |-> TRUE, header |-> LedgerKeys, rows |-> <<data>>]

LedgerWrite(file, date, amount, category, desc, mode_of_payment) ==
    LET data == [date |-> date, category |-> category, desc |-> desc,
                 mode_of_payment |-> mode_of_payment,
                 amount |-> IntText(RoundInt(amount))]
    IN  IF file.header = <<>> /\ file.rows = <<>>
        THEN [exists |-> TRUE, header |-> LedgerKeys, rows |-> <<data>>]
        ELSE [file EXCEPT !.rows = Append(@, data)]

\* Account.previous_balance
previous_balance(file) == Float(Last(file.rows).amount)

\* Account.credit_amount
credit_amount(file, amount) == amount + previous_balance(file)

\* Account.debit
debit(file, amount) == previous_balance(file) - amount

Successful == "Transaction successful."
Unable == "Unable to make transaction"

\* the balance test of Account.transaction
RejectedMutant(amount) == amount <= 0

Rejected(amount) == amount < 0

\* the new balance of Account.transaction
NewBalance(file, amount, credit) ==
    IF credit THEN credit_amount(file, amount) ELSE debit(file, amount)

(***************************************************************************)
(* Account.__init__ in a working directory that has no folder of the       *)
(* holder yet: the folder and ledger.csv are created, the header and the   *)
(* opening record are written.                                             *)
(***************************************************************************)
OpeningRow(file, initial_amount_paid, today) ==
    LedgerWrite(file, IsoDate(today), Round2(initial_amount_paid),
                "Credit", "Initial amount credited", "UPI")

Init ==
    \E initial_amount_paid \in InitAmounts, today \in Todays :
        /\ ledger_csv = OpeningRow(EmptyFile, initial_amount_paid, today)
        /\ category_csv = NoFile
        /\ payment_csv = NoFile
        /\ report_txt = NoFile
        /\ report_html = NoFile
        /\ console = <<>>
        /\ pr = NoReport
        /\ call = [op |-> "__init__", amount |-> initial_amount_paid]
        /\ result = None
        /\ expected = Round2(initial_amount_paid)
        /\ pc = <<"idle", "idle">>
        /\ locals = <<NoCall, NoCall>>

(***************************************************************************)
(* Account.transaction                                                     *)
(***************************************************************************)
Transaction(amount, category, desc, mode_of_payment, credit, today) ==
    LET balance == NewBalance(ledger_csv, amount, credit)
    IN  /\ call' = [op |-> "transaction", amount |-> amount, credit |-> credit]
        /\ IF Rejected(balance)
           THEN /\ result' = Unable
                /\ UNCHANGED <<ledger_csv, expected>>
           ELSE /\ ledger_csv' = LedgerWrite(ledger_csv, IsoDate(today),
                                             Round2(balance), category, desc,
                                             mode_of_payment)
                /\ result' = Successful
                /\ expected' = Round2(IF credit THEN expected + amount
                                                ELSE expected - amount)
        /\ UNCHANGED <<category_csv, payment_csv, reportVars, pc, locals>>

TransactionStep ==
    /\ Len(ledger_csv.rows) < MaxLen
    /\ \E amount \in Amounts, category \in Categories, desc \in Descs,
          mode_of_payment \in Modes, credit \in BOOLEAN, today \in Todays :
          Transaction(amount, category, desc, mode_of_payment, credit, today)

(***************************************************************************)
(* Account.generate_csv_file and the two exports                           *)
(***************************************************************************)
\* {key: entry[key] for key in keys}
Project(entry, keys) == [k \in {keys[i] : i \in 1..Len(keys)} |-> entry[k]]

generate_csv_fileMutant(in_file, keys) ==
    [exists |-> TRUE, header |-> keys,
     rows |-> [i \in 1..(Len(in_file.rows) - 1) |->
                  Project(in_file.rows[i + 1], keys)]]

generate_csv_file(in_file, keys) ==
    LET data == in_file.rows
        data2 == [i \in 1..Len(data) |-> Project(data[i], keys)]
    IN  [exists |-> TRUE, header |-> keys, rows |-> data2]

CategoryKeys == <<"date", "category", "desc", "amount">>
PaymentKeys == <<"date", "mode_of_payment", "desc", "amount">>

generate_category_report ==
    /\ category_csv' = generate_csv_file(ledger_csv, CategoryKeys)
    /\ call' = [op |-> "generate_category_report"]
    /\ result' = "category.csv"
    /\ UNCHANGED <<ledger_csv, payment_csv, reportVars, expected, pc, locals>>

generate_payment_report ==
    /\ payment_csv' = generate_csv_file(ledger_csv, PaymentKeys)
    /\ call' = [op |-> "generate_payment_report"]
    /\ result' = "payment.csv"
    /\ UNCHANGED <<ledger_csv, category_csv, reportVars, expected, pc, locals>>

(***************************************************************************)
(* Account.print_report                                                    *)
(***************************************************************************)
RECURSIVE SortedSeq(_)
\* sorted(list(S))
SortedSeq(S) ==
    IF S = {} THEN <<>>
    ELSE LET m == CHOOSE x \in S : \A y \in S : x <= y
         IN  <<m>> \o SortedSeq(S \ {m})

\* the orders in which a Python set of strings may be iterated
IterationOrders(S) ==
    {s \in [1..Cardinality(S) -> S] : \A i, j \in 1..Cardinality(S) :
                                         s[i] = s[j] => i = j}

\* month_end of the two loops over the years
MonthEndMutant(year, today) == IF year = today[1] THEN today[2] ELSE 13

MonthEnd(year, today) == IF year = today[1] THEN today[2] + 1 ELSE 13

\* the test that decides whether an entry is added to a cell
HitMutant(entry, category, year, month) ==
    /\ entry.category = category
    /\ Strptime(entry.date).month = month

Hit(entry, category, year, month) ==
    LET date_obj == Strptime(entry.date)
    IN  /\ entry.category = category
        /\ date_obj.month = month
        /\ date_obj.year = year

RECURSIVE AmountLoop(_, _, _, _, _, _)
\* the loop over the entries: the running amount after entries i..Len(data),
\* `acc` being a number that is still the int 0 as long as nothing was added
AmountLoop(data, category, year, month, i, acc) ==
    IF i > Len(data) THEN acc
    ELSE LET entry == data[i]
         IN  AmountLoop(data, category, year, month, i + 1,
                        IF Hit(entry, category, year, month)
                        THEN FloatText(acc.v + Float(entry.amount))
                        ELSE acc)

\* one cell: round(amount, 2) of the amount the loop leaves
Cell(data, category, year, month) ==
    LET amount == AmountLoop(data, category, year, month, 1, IntText(0))
    IN  [amount EXCEPT !.v = Round2(@)]

RECURSIVE YearLoop(_, _, _, _, _)
\* the loop over the years around the loop over range(1, month_end)
YearLoop(data, category, years, today, k) ==
    IF k > Len(years) THEN <<>>
    ELSE LET year == years[k]
             month_end == MonthEnd(year, today)
         IN  [month \in 1..(month_end - 1) |-> Cell(data, category, year, month)]
             \o YearLoop(data, category, years, today, k + 1)

RECURSIVE HeaderLoop(_, _, _)
\* the loop that builds the period headers str(month) + "-" + str(year)
HeaderLoop(years, today, k) ==
    IF k > Len(years) THEN <<>>
    ELSE LET year == years[k]
             month_end == MonthEnd(year, today)
         IN  [month \in 1..(month_end - 1) |-> <<month, "-", year>>]
             \o HeaderLoop(years, today, k + 1)

\* f"{text:width}" and f"{text:>width}"
Field(text, width, align) == [text |-> text, width |-> width, align |-> align]

\* <tag>text</tag>
Tag(tag, text) == [tag |-> tag, text |-> text]

\* the lines printed and added to txt: the header line, then a line per category
TxtLines(categories, dates, categorized_data) ==
    <<(<<Field("Category", 10, "<")>>
       \o [k \in 1..Len(dates) |-> Field(dates[k], 12, ">")])>>
    \o [index \in 1..Len(categories) |->
          <<Field(categories[index], 10, "<")>>
          \o [k \in 1..Len(categorized_data[index]) |->
                 Field(categorized_data[index][k], 12, ">")]]

\* the rows added to html
HtmlRowsMutant(categories, dates, categorized_data) ==
    <<(<<Tag("th", "Category")>>
       \o [k \in 1..Len(dates) |-> Tag("th", dates[k])])>>
    \o [index \in 1..Len(categories) |->
          <<Tag("td", categories[index])>>
          \o [k \in 1..Len(categorized_data[index]) |->
                 Tag("td", categorized_data[Len(categories) + 1 - index][k])]]

HtmlRows(categories, dates, categorized_data) ==
    <<(<<Tag("th", "Category")>>
       \o [k \in 1..Len(dates) |-> Tag("th", dates[k])])>>
    \o [index \in 1..Len(categories) |->
          <<Tag("td", categories[index])>>
          \o [k \in 1..Len(categorized_data[index]) |->
                 Tag("td", categorized_data[index][k])]]

\* Account.generate_html_file: the table inside the styled page
generate_html_file(output) ==
    [exists |-> TRUE, style |-> "table, th, td", body |-> [table |-> output]]

\* Account.generate_txt_file
generate_txt_file(output) == [exists |-> TRUE, lines |-> output]

print_report(today) ==
    LET data == ledger_csv.rows
    IN  \E categories \in IterationOrders({data[i].category : i \in 1..Len(data)}),
           years \in {SortedSeq({Strptime(data[i].date).year : i \in 1..Len(data)})} :
          \E categorized_data \in
                 {[c \in 1..Len(categories) |->
                      YearLoop(data, categories[c], years, today, 1)]},
             dates \in {HeaderLoop(years, today, 1)} :
             /\ console' = TxtLines(categories, dates, categorized_data)
             /\ report_txt' =
                    generate_txt_file(TxtLines(categories, dates, categorized_data))
             /\ report_html' =
                    generate_html_file(HtmlRows(categories, dates, categorized_data))
             /\ pr' = [done |-> TRUE, data |-> data, today |-> today,
                       categories |-> categories, years |-> years,
                       categorized_data |-> categorized_data]
             /\ call' = [op |-> "print_report"]
             /\ result' = None
             /\ UNCHANGED <<ledger_csv, category_csv, payment_csv, expected,
                            pc, locals>>

PrintReportStep == \E today \in Todays : print_report(today)

(***************************************************************************)
(* Account.__init__ for a holder whose folder and ledger.csv exist already *)
(***************************************************************************)
Construct(initial_amount_paid, today) ==
    /\ ledger_csv' = OpeningRow(ledger_csv, initial_amount_paid, today)
    /\ call' = [op |-> "__init__", amount |-> initial_amount_paid]
    /\ result' = None
    /\ expected' = Round2(initial_amount_paid)
    /\ UNCHANGED <<category_csv, payment_csv, reportVars, pc, locals>>

(***************************************************************************)
(* generate_random_data(n, folder), folder being the holder's folder.      *)
(* random.randint, random.choice and random.random are a function of a     *)
(* seed drawn from a small set and of the place in the three loops.        *)
(***************************************************************************)
RandomCategories == <<"Food", "Rent", "Credit", "Debit", "Fare", "Picnic">>
RandomModes == <<"Net Banking", "Mobile Banking", "UPI", "Card Payment">>

\* f"Added {category}"
Added(category) ==
    CASE category = "Food" -> "Added Food"
      [] category = "Rent" -> "Added Rent"
      [] category = "Credit" -> "Added Credit"
      [] category = "Debit" -> "Added Debit"
      [] category = "Fare" -> "Added Fare"
      [] category = "Picnic" -> "Added Picnic"

\* f"{year}-{month}-{date}": month and day unpadded
PlainDate(year, month, day) == [y |-> year, m |-> month, d |-> day, pad |-> FALSE]

RandomRow(seed, year, month, c) ==
    [date |-> PlainDate(year, month, 1 + ((seed + 7 * month + 3 * c) % 28)),
     category |-> RandomCategories[c],
     desc |-> Added(RandomCategories[c]),
     mode_of_payment |-> RandomModes[1 + ((seed + month + c) % 4)],
     amount |-> FloatText(Round2((seed * 7919 + year * 31 + month * 104729
                                  + c * 1299709) % 10000000))]

\* ledger_data: for year, for month in 1..12, for category
RandomLedgerData(seed, n, current_year) ==
    [k \in 1..(n * 12 * Len(RandomCategories)) |->
        LET c == 1 + ((k - 1) % Len(RandomCategories))
            month == 1 + (((k - 1) \div Len(RandomCategories)) % 12)
            year == current_year - n + ((k - 1) \div (12 * Len(RandomCategories)))
        IN  RandomRow(seed, year, month, c)]

generate_random_data(seed, n, today) ==
    LET ledger_data == RandomLedgerData(seed, n, today[1])
    IN  /\ call' = [op |-> "generate_random_data", n |-> n]
        /\ IF ledger_data = <<>>
           THEN \* ledger_data[0]: IndexError, after the file was opened to append
                /\ result' = "IndexError"
                /\ UNCHANGED ledger_csv
           ELSE /\ result' = None
                /\ ledger_csv' =
                       IF ledger_csv.header = <<>> /\ ledger_csv.rows = <<>>
                       THEN [exists |-> TRUE, header |-> LedgerKeys,
                             rows |-> ledger_data]
                       ELSE [ledger_csv EXCEPT !.rows = @ \o ledger_data]
        /\ UNCHANGED <<category_csv, payment_csv, reportVars, expected, pc, locals>>

(***************************************************************************)
(* Two processes that each call transaction() once on the same account:    *)
(* the read of the last record (lines 100-104) and the test and append     *)
(* (lines 106-110) are separate steps, nothing being locked in between.    *)
(***************************************************************************)
TransactionRead(p, amount, category, desc, mode_of_payment, credit, today) ==
    /\ pc[p] = "idle"
    /\ locals' = [locals EXCEPT ![p] =
                     [seen |-> Len(ledger_csv.rows), wrote |-> 0,
                      date |-> today, delta |-> amount, credit |-> credit,
                      amount |-> NewBalance(ledger_csv, amount, credit),
                      category |-> category, desc |-> desc,
                      mode_of_payment |-> mode_of_payment]]
    /\ pc' = [pc EXCEPT ![p] = "read"]
    /\ UNCHANGED <<ledger_csv, category_csv, payment_csv, reportVars, call,
                   result, expected>>

TransactionWrite(p) ==
    /\ pc[p] = "read"
    /\ pc' = [pc EXCEPT ![p] = "done"]
    /\ call' = [op |-> "transaction", amount |-> locals[p].delta,
                credit |-> locals[p].credit]
    /\ IF Rejected(locals[p].amount)
       THEN /\ result' = Unable
            /\ UNCHANGED <<ledger_csv, expected, locals>>
       ELSE /\ ledger_csv' = LedgerWrite(ledger_csv, IsoDate(locals[p].date),
                                         Round2(locals[p].amount),
                                         locals[p].category, locals[p].desc,
                                         locals[p].mode_of_payment)
            /\ locals' = [locals EXCEPT ![p].wrote = Len(ledger_csv.rows) + 1]
            /\ result' = Successful
            /\ expected' = Round2(IF locals[p].credit
                                  THEN expected + locals[p].delta
                                  ELSE expected - locals[p].delta)
    /\ UNCHANGED <<category_csv, payment_csv, reportVars>>

(***************************************************************************)
(* Steps and specifications                                                *)
(***************************************************************************)
MaxLifecycleLen == 2
MaxYears == 1
Seeds == {3, 11}
Procs == {1, 2}

\* Spec: one account and its transactions
Next == TransactionStep

Spec == Init /\ [][Next]_vars

\* SpecReport: transactions and print_report()
ReportTransactionStep ==
    /\ Len(ledger_csv.rows) < MaxLen
    /\ \E amount \in {1000}, category \in Categories, today \in Todays :
          Transaction(amount, category, "Added Food", "UPI", TRUE, today)

NextReport == ReportTransactionStep \/ PrintReportStep

SpecReport == Init /\ [][NextReport]_vars

\* SpecExport: transactions and the two csv exports
ExportTransactionStep ==
    /\ Len(ledger_csv.rows) < MaxLen
    /\ \E amount \in {1000}, category \in Categories, desc \in Descs,
          mode_of_payment \in Modes, today \in Todays :
          Transaction(amount, category, desc, mode_of_payment, TRUE, today)

NextExport ==
    \/ ExportTransactionStep
    \/ generate_category_report
    \/ generate_payment_report

SpecExport == Init /\ [][NextExport]_vars

\* SpecLifecycle: every operation of an Account, constructing it again included
ConstructStep ==
    /\ Len(ledger_csv.rows) < MaxLifecycleLen
    /\ \E initial_amount_paid \in InitAmounts, today \in {<<2024, 6, 15>>} :
          Construct(initial_amount_paid, today)

LifecycleTransactionStep ==
    /\ Len(ledger_csv.rows) < MaxLifecycleLen
    /\ \E amount \in {400, 2504}, credit \in BOOLEAN, today \in {<<2024, 6, 15>>} :
          Transaction(amount, "Food", "Added Food", "Card Payment", credit, today)

NextLifecycle ==
    \/ ConstructStep
    \/ LifecycleTransactionStep
    \/ generate_category_report
    \/ generate_payment_report
    \/ PrintReportStep

SpecLifecycle == Init /\ [][NextLifecycle]_vars

\* SpecSeed: an account, its transactions and generate_random_data on its folder
GenerateRandomDataStep ==
    /\ Len(ledger_csv.rows) <= MaxLifecycleLen
    /\ \E seed \in Seeds, n \in 0..MaxYears, today \in Todays :
          generate_random_data(seed, n, today)

NextSeed ==
    \/ ConstructStep
    \/ LifecycleTransactionStep
    \/ GenerateRandomDataStep

SpecSeed == Init /\ [][NextSeed]_vars

\* SpecConcurrent: two processes, one transaction() each
TransactionReadStep ==
    \E p \in Procs, amount \in Amounts, category \in Categories,
       credit \in BOOLEAN, today \in Todays :
       TransactionRead(p, amount, category, "Added Food", "UPI", credit, today)

TransactionWriteStep == \E p \in Procs : TransactionWrite(p)

NextConcurrent == TransactionReadStep \/ TransactionWriteStep

SpecConcurrent == Init /\ [][NextConcurrent]_vars

(***************************************************************************)
(* Properties                                                              *)
(***************************************************************************)
Rows == ledger_csv.rows

Balance == Float(Last(Rows).amount)

RECURSIVE SumAmounts(_, _)
\* the sum of the amounts of the records of `data` at the indices in S
SumAmounts(data, S) ==
    IF S = {} THEN 0
    ELSE LET i == CHOOSE x \in S : TRUE
         IN  Float(data[i].amount) + SumAmounts(data, S \ {i})

RECURSIVE SumCells(_)
SumCells(cells) ==
    IF cells = <<>> THEN 0 ELSE cells[1].v + SumCells(Tail(cells))

\* C1: after any sequence of successful transactions the amount of the last
\* record is the initial amount with every credit added and every debit
\* subtracted in append order, rounded to 2 decimals after each step.
C1_LastAmountIsArithmetic == Balance = expected

\* C2: a debit that exceeds the balance returns the rejection status, appends
\* nothing and leaves the ledger as it was (so repeating it changes nothing),
\* and a debit that fits the balance is accepted and appended, whatever was
\* rejected before.
C2_RejectedDebit ==
    [][(call'.op = "transaction" /\ ~call'.credit) =>
          /\ call'.amount > Balance =>
                result' = Unable /\ ledger_csv' = ledger_csv
          /\ (call'.amount >= 0 /\ call'.amount <= Balance) =>
                /\ result' = Successful
                /\ Len(ledger_csv'.rows) = Len(Rows) + 1]_vars

\* a debit of more than the balance was just rejected, on an account that had
\* accepted a transaction before
C2_Witness ==
    /\ call.op = "transaction"
    /\ ~call.credit
    /\ call.amount > Balance
    /\ result = Unable
    /\ Len(Rows) >= 2

\* C3: every stored record has amount >= 0, whatever the initial amount and
\* the transactions were.
C3_AmountsNonNegative == \A i \in 1..Len(Rows) : Float(Rows[i].amount) >= 0

\* C4: the ledger is append-only: every operation leaves the records written
\* before it unchanged and in place; a successful transaction() adds exactly
\* one record at the end; a rejected one and the three report operations
\* leave the length as it was.
C4_AppendOnly ==
    [][/\ ledger_csv'.header = ledger_csv.header
       /\ Len(ledger_csv'.rows) >= Len(Rows)
       /\ \A i \in 1..Len(Rows) : ledger_csv'.rows[i] = Rows[i]
       /\ (call'.op = "transaction" /\ result' = Successful) =>
              Len(ledger_csv'.rows) = Len(Rows) + 1
       /\ (call'.op = "transaction" /\ result' = Unable) =>
              Len(ledger_csv'.rows) = Len(Rows)
       /\ call'.op \in {"generate_category_report", "generate_payment_report",
                        "print_report"} =>
              Len(ledger_csv'.rows) = Len(Rows)]_vars

\* a transaction was appended to a ledger whose reports had all been made
C4_Witness ==
    /\ call.op = "transaction"
    /\ result = Successful
    /\ Len(Rows) >= 2
    /\ category_csv.exists
    /\ payment_csv.exists
    /\ pr.done
    /\ Len(pr.data) < Len(Rows)

IsOpening(row) ==
    /\ row.category = "Credit"
    /\ row.desc = "Initial amount credited"
    /\ row.mode_of_payment = "UPI"

\* C5: the ledger holds exactly one opening record, at position 1, however
\* often an Account is constructed for the holder, and after creation the
\* balance changes only through transaction().
C5_CreatedOnce ==
    /\ [](/\ IsOpening(Rows[1])
          /\ Cardinality({i \in 1..Len(Rows) : IsOpening(Rows[i])}) = 1)
    /\ [][Float(Last(ledger_csv'.rows).amount) # Balance =>
             call'.op = "transaction"]_vars

\* the period axis a report shows: the labels of its header line
Axis(lines) == [j \in 1..(Len(lines[1]) - 1) |->
                   <<lines[1][j + 1].text[1], lines[1][j + 1].text[3]>>]

\* the periods the report of `data` made on `today` has to show
Periods(data, today) ==
    {<<m, y>> \in (1..12) \X {data[i].date.y : i \in 1..Len(data)} :
        y = today[1] => m <= today[2]}

\* C6: the period axis of print_report() is, for the years of the records
\* in ascending order, months 1..12 in ascending order, cut at today's month
\* for today's year; with today = 2024-06-15 and records of 2024 only it is
\* months 1..6 of 2024; header and category rows have the axis' length.
C6_PeriodAxis ==
    pr.done =>
        LET ax == Axis(report_txt.lines)
            P == Periods(pr.data, pr.today)
        IN  /\ Len(ax) = Cardinality(P)
            /\ \A j \in 1..Len(ax) : ax[j] \in P
            /\ \A j, k \in 1..Len(ax) :
                  j < k => \/ ax[j][2] < ax[k][2]
                           \/ ax[j][2] = ax[k][2] /\ ax[j][1] < ax[k][1]
            /\ \A i \in 1..Len(report_txt.lines) :
                  /\ Len(report_txt.lines[i]) = Len(ax) + 1
                  /\ Len(console[i]) = Len(ax) + 1
                  /\ Len(report_html.body.table[i]) = Len(ax) + 1
            /\ \A c \in 1..Len(pr.categorized_data) :
                  Len(pr.categorized_data[c]) = Len(ax)
            /\ (pr.today = <<2024, 6, 15>>
                /\ \A i \in 1..Len(pr.data) : pr.data[i].date.y = 2024) =>
                  ax = [j \in 1..6 |-> <<j, 2024>>]

\* a report made in June 2024 of records of 2023 and 2024
C6_Witness ==
    /\ pr.done
    /\ pr.today = <<2024, 6, 15>>
    /\ {pr.data[i].date.y : i \in 1..Len(pr.data)} = {2023, 2024}
    /\ Len(Axis(report_txt.lines)) = 18

\* the records of `data` of a category in a period
Matching(data, category, period) ==
    {i \in 1..Len(data) : /\ data[i].category = category
                          /\ data[i].date.m = period[1]
                          /\ data[i].date.y = period[2]}

\* C7: every cell of the matrix is the sum of the amounts of exactly the
\* records of its category dated in its period, 0 when there is none; so
\* the cells of a category add up to the amounts of its records dated on the
\* axis, and a record of the current year after the current month is in no
\* cell.
C7_CellsAreSums ==
    pr.done =>
        LET ax == Axis(report_txt.lines)
            data == pr.data
        IN  \A c \in 1..Len(pr.categories) :
              /\ Len(pr.categorized_data[c]) = Len(ax)
              /\ \A j \in 1..Len(ax) :
                    pr.categorized_data[c][j].v =
                        SumAmounts(data, Matching(data, pr.categories[c], ax[j]))
              /\ SumCells(pr.categorized_data[c]) =
                    SumAmounts(data,
                        {i \in 1..Len(data) :
                            /\ data[i].category = pr.categories[c]
                            /\ <<data[i].date.m, data[i].date.y>>
                                  \in Periods(data, pr.today)})

\* a report with a cell that adds two records, beside a record of the
\* current year dated after the current month
C7_Witness ==
    /\ pr.done
    /\ \E c \in 1..Len(pr.categories), j \in 1..Len(Axis(report_txt.lines)) :
          Cardinality(Matching(pr.data, pr.categories[c],
                               Axis(report_txt.lines)[j])) >= 2
    /\ \E i \in 1..Len(pr.data) :
          /\ pr.data[i].date.y = pr.today[1]
          /\ pr.data[i].date.m > pr.today[2]
          /\ Float(pr.data[i].amount) > 0

\* C8: each export holds one row per ledger record, in ledger order, with
\* the record's date, desc and amount and its category, respectively its
\* mode of payment; the two exports paired row for row, or joined on date
\* and desc, give back every ledger record.
C8_ExportsRoundTrip ==
    /\ category_csv.exists =>
          /\ category_csv.header = <<"date", "category", "desc", "amount">>
          /\ Len(category_csv.rows) <= Len(Rows)
          /\ call.op = "generate_category_report" =>
                Len(category_csv.rows) = Len(Rows)
          /\ \A i \in 1..Len(category_csv.rows) :
                category_csv.rows[i] =
                    [date |-> Rows[i].date, category |-> Rows[i].category,
                     desc |-> Rows[i].desc, amount |-> Rows[i].amount]
    /\ payment_csv.exists =>
          /\ payment_csv.header = <<"date", "mode_of_payment", "desc", "amount">>
          /\ Len(payment_csv.rows) <= Len(Rows)
          /\ call.op = "generate_payment_report" =>
                Len(payment_csv.rows) = Len(Rows)
          /\ \A i \in 1..Len(payment_csv.rows) :
                payment_csv.rows[i] =
                    [date |-> Rows[i].date,
                     mode_of_payment |-> Rows[i].mode_of_payment,
                     desc |-> Rows[i].desc, amount |-> Rows[i].amount]
    /\ (category_csv.exists /\ payment_csv.exists) =>
          LET Joined(c, q) ==
                  [date |-> c.date, category |-> c.category, desc |-> c.desc,
                   mode_of_payment |-> q.mode_of_payment, amount |-> c.amount]
              n == IF Len(category_csv.rows) < Len(payment_csv.rows)
                   THEN Len(category_csv.rows) ELSE Len(payment_csv.rows)
          IN  \A i \in 1..n :
                /\ Joined(category_csv.rows[i], payment_csv.rows[i]) = Rows[i]
                /\ \E j \in 1..Len(category_csv.rows),
                      k \in 1..Len(payment_csv.rows) :
                      /\ category_csv.rows[j].date = payment_csv.rows[k].date
                      /\ category_csv.rows[j].desc = payment_csv.rows[k].desc
                      /\ category_csv.rows[j].amount = payment_csv.rows[k].amount
                      /\ Joined(category_csv.rows[j], payment_csv.rows[k]) = Rows[i]

\* both exports made of a ledger of three records that differ in category
\* and in mode of payment
C8_Witness ==
    /\ category_csv.exists
    /\ payment_csv.exists
    /\ Len(category_csv.rows) = Len(Rows)
    /\ Len(payment_csv.rows) = Len(Rows)
    /\ Len(Rows) >= 3
    /\ Cardinality({Rows[i].category : i \in 1..Len(Rows)}) >= 2
    /\ Cardinality({Rows[i].mode_of_payment : i \in 1..Len(Rows)}) >= 2

\* what a line of the console or of report.txt shows, and what a row of the
\* html table shows
Shown(line) == [j \in 1..Len(line) |-> line[j].text]

\* C9: console, report.txt and the html table of one print_report() show the
\* same period headers, the same category rows in the same order and the
\* same cells, and the row labelled C holds the totals of C.
C9_SameDataInThreeFormats ==
    pr.done =>
        LET txt == report_txt.lines
            html == report_html.body.table
            ax == Axis(txt)
        IN  /\ Len(console) = Len(txt)
            /\ Len(html) = Len(txt)
            /\ Len(txt) = Len(pr.categories) + 1
            /\ \A i \in 1..Len(txt) :
                  /\ Shown(console[i]) = Shown(txt[i])
                  /\ Shown(html[i]) = Shown(txt[i])
            /\ \A c \in 1..Len(pr.categories) :
                  /\ txt[c + 1][1].text = pr.categories[c]
                  /\ \A j \in 1..Len(ax) :
                        /\ html[c + 1][j + 1].text.v =
                              SumAmounts(pr.data,
                                  Matching(pr.data, html[c + 1][1].text, ax[j]))
                        /\ txt[c + 1][j + 1].text.v =
                              SumAmounts(pr.data,
                                  Matching(pr.data, txt[c + 1][1].text, ax[j]))

\* a report of two categories whose rows differ
C9_Witness ==
    /\ pr.done
    /\ Len(pr.categories) = 2
    /\ pr.categorized_data[1] # pr.categorized_data[2]
    /\ Len(report_html.body.table) = 3

\* C10: two transaction() calls that run one after the other leave a last
\* record that reflects both (two that overlap may lose one, see
\* C10_LostUpdate).
C10_SequentialReflectsBoth ==
    (/\ pc = <<"done", "done">>
     /\ \E p, q \in Procs : /\ locals[p].wrote = 2
                            /\ locals[q].seen = 2
                            /\ locals[q].wrote = 3) =>
        Balance = expected

\* both calls read the opening record before either appended, both appended,
\* and the last record holds the second writer's delta alone
C10_LostUpdate ==
    /\ pc = <<"done", "done">>
    /\ \E p, q \in Procs :
          /\ locals[p].seen = 1 /\ locals[p].wrote = 2
          /\ locals[q].seen = 1 /\ locals[q].wrote = 3
          /\ locals[p].delta > 0
          /\ Balance = RoundInt(Round2(locals[q].amount))
          /\ locals[q].amount =
                Float(Rows[1].amount)
                + (IF locals[q].credit THEN locals[q].delta ELSE -locals[q].delta)
          /\ Balance # Float(Rows[2].amount)
                       + (IF locals[q].credit THEN locals[q].delta
                                              ELSE -locals[q].delta)
====
